---- MODULE Spec2Model ----
(***************************************************************************)
(* Secure session layer of connectcore-ble-python: BLESecurityManager      *)
(* (SRP-6a handshake, AES-CTR session ciphers) and the packet dispatcher   *)
(* of BLEServiceNative.                                                    *)
(*                                                                         *)
(* Representation.  A frame is a sequence of integers 0..255.  The four    *)
(* envelope bytes (0x7E, length MSB, length LSB, frame type) and the       *)
(* checksum are modelled byte for byte, so Python's data[3] is frame[4].   *)
(* Every cryptographic field (A, M1, salt, B, M2, nonce, key) is ONE       *)
(* element wide instead of 128/32/4/12 bytes; its value stands for the     *)
(* whole byte string.  The srp hashes and the AES keystream are modelled   *)
(* by arithmetic functions that are collision free on the model's domain.  *)
(***************************************************************************)
EXTENDS Integers, Sequences, FiniteSets, TLC

\* ------------------------------------------------------------------ bounds
MaxStream == 16        \* keystream bytes the two ciphers of a session may use
MaxObservers == 2      \* registrations the data-received list may hold
MaxInstances == 2      \* service instances constructed in one run
MaxLive == 2           \* baud rates per probe that do not fail with XBeeException
MaxThreads == 2        \* wait threads started in one run
MaxDispatch == 4       \* observer calls one dispatch may make

\* --------------------------------------------------------- program constants
HEADER_BYTE == 126             \* 0x7E start delimiter of an API frame
FRAME_UNLOCK == 44             \* 0x2C Bluetooth Unlock API frame (inbound)
FRAME_UNKNOWN == 172           \* 0xAC frame type of the handshake replies
FRAME_AT_COMMAND == 8          \* 0x08 AT command frame, ignored
FRAME_RELAY_REQUEST == 45      \* 0x2D User Data Relay (inbound)
FRAME_RELAY_OUTPUT == 173      \* 0xAD User Data Relay Output (outbound)
IFACE_BLUETOOTH == 1           \* XBeeLocalInterface.BLUETOOTH
PHASE_1 == 1
PHASE_2 == 2
PHASE_3 == 3
PHASE_4 == 4
B_OFFERING_ERROR == 128        \* 0x80
BAD_PROOF_OF_KEY == 130        \* 0x82
INCORRECT_LENGTH == 129        \* 0x81
WRONG_STEP_ERROR == 132        \* 0x84
A_LEN == 1                     \* frame_data[5:133], one element per field
M1_LEN == 1                    \* frame_data[5:37], one element per field
M2_LEN == 1                    \* width of server_proof_M2 in the reply
NONCE_LEN == 1                 \* os.urandom(12), one element per field
COUNTER_INITIAL == 1           \* Counter.new(initial_value=1)
SRP_N == 3                     \* the group modulus N (NG_1024), scaled
DEFAULT_PASSWORD == 1          \* '1234'

\* ----------------------------------------------------------- input domains
Passwords == {1, 2}            \* 1 is '1234'
Salts == {1}                   \* outcomes of the random 4-byte salt
AVals == {0, 1, 2}             \* client ephemeral A; 0 is A mod N == 0
BRand == {1}                   \* outcomes of the verifier's random b
Nonces == {1, 2}               \* outcomes of os.urandom(12)
Callbacks == {1, 2}            \* the application's observer functions
WrongProofs == {100}           \* proofs no verifier of the model expects

\* ------------------------------------------------------------ Python values
None == [none |-> TRUE]

Min(a, b) == IF a < b THEN a ELSE b

\* Python s[i:j] on a sequence (0-based, j exclusive, clipped to len(s))
Slice(s, i, j) == SubSeq(s, i + 1, Min(j, Len(s)))

\* Python s[i:-1]
SliceToLast(s, i) == SubSeq(s, i + 1, Len(s) - 1)

\* Python sum(s), by halves to keep the recursion shallow
RECURSIVE Sum(_)
Sum(s) ==
  IF s = <<>> THEN 0
  ELSE IF Len(s) = 1 THEN s[1]
  ELSE LET h == Len(s) \div 2
       IN Sum(SubSeq(s, 1, h)) + Sum(SubSeq(s, h + 1, Len(s)))

Zeros(n) == [i \in 1..n |-> 0]

\* ------------------------------------------------------------------ utils.py
SPACE == 16                    \* the separator " " among the hex digits 0..15

RECURSIVE hex_to_string(_)
hex_to_string(byte_array) ==
  IF byte_array = <<>> THEN <<>>
  ELSE LET b == byte_array[1]
           digits == <<b \div 16, b % 16>>
       IN IF Len(byte_array) = 1 THEN digits
          ELSE digits \o <<SPACE>> \o hex_to_string(Tail(byte_array))

\* bytes.fromhex: whitespace is skipped, two hex digits make one byte
RECURSIVE fromhex(_)
fromhex(str) ==
  IF str = <<>> THEN <<>>
  ELSE IF str[1] = SPACE THEN fromhex(Tail(str))
  ELSE <<str[1] * 16 + str[2]>> \o fromhex(Tail(Tail(str)))

\* ------------------------------------------- digi.xbee API frames (library)
\* XBeeAPIPacket.output(): 0x7E, 16-bit length of the frame specific data,
\* the frame specific data (frame type and payload), checksum
checksum(spec_data) == 255 - (Sum(spec_data) % 256)

output(frame_type, payload) ==
  LET spec_data == <<frame_type>> \o payload
  IN <<HEADER_BYTE, Len(spec_data) \div 256, Len(spec_data) % 256>>
       \o spec_data \o <<checksum(spec_data)>>

\* XBeeAPIPacket._check_api_packet(raw, min_length): TRUE when it does not
\* raise InvalidPacketException
check_api_packet(raw, min_length) ==
  /\ Len(raw) >= min_length
  /\ raw[1] = HEADER_BYTE
  /\ Len(SliceToLast(raw, 3)) = raw[2] * 256 + raw[3]
  /\ checksum(SliceToLast(raw, 3)) = raw[Len(raw)]

\* ------------------------------------------------------ srp library (pysrp)
\* create_salted_verification_key: v = g^H(salt, H(user:password)) mod N
verification_key_of(api_password, s) == (api_password - 1) * 2 + s

\* the session key K = H(S), S = (A * v^u)^b mod N
srp_K(v, A, b) == ((v - 1) * 2 + (A - 1)) * 2 + b
\* B = (k*v + g^b) mod N
srp_B(v, b) == 20 + (v - 1) * 2 + b
\* M = H(H(N) xor H(g), H(I), s, A, B, K)
srp_M(v, A, b) == 100 + srp_K(v, A, b)
\* H_AMK = H(A, M, K)
srp_H_AMK(v, A, b) == 200 + srp_K(v, A, b)

\* big-endian value of a byte string; the empty string is 0
RECURSIVE bytes_to_long(_)
bytes_to_long(s) ==
  IF s = <<>> THEN 0 ELSE bytes_to_long(SubSeq(s, 1, Len(s) - 1)) * 256 + s[Len(s)]

\* srp.Verifier(username, salt, verification_key, bytes_A): b is the random
\* private value drawn by the constructor
Verifier(s, v, bytes_A, b) ==
  LET A == bytes_to_long(bytes_A)
      safety_failed == (A % SRP_N = 0)
  IN IF safety_failed
     THEN [s |-> s, v |-> v, A |-> A, safety_failed |-> TRUE, B |-> 0, K |-> 0,
           M |-> 0, H_AMK |-> 0, authenticated |-> FALSE]
     ELSE [s |-> s, v |-> v, A |-> A, safety_failed |-> FALSE, B |-> srp_B(v, b),
           K |-> srp_K(v, A, b), M |-> srp_M(v, A, b),
           H_AMK |-> srp_H_AMK(v, A, b), authenticated |-> FALSE]

\* Verifier.get_challenge(): the B of (salt, B), <<>> standing for None
get_challenge(ver) == IF ver.safety_failed THEN <<>> ELSE <<ver.B>>

\* Verifier.verify_session(user_M): the verifier afterwards and the value
\* returned (H_AMK, <<>> standing for None)
verify_session(ver, user_M) ==
  IF ~ver.safety_failed /\ user_M = <<ver.M>>
  THEN [ver |-> [ver EXCEPT !.authenticated = TRUE], ret |-> <<ver.H_AMK>>]
  ELSE [ver |-> ver, ret |-> <<>>]

\* Verifier.get_session_key()
get_session_key(ver) == IF ver.authenticated THEN <<ver.K>> ELSE <<>>

\* ------------------------------------------------------- AES in CTR mode
\* bitwise exclusive or of two bytes
RECURSIVE xor(_, _)
xor(a, b) ==
  IF a = 0 THEN b ELSE IF b = 0 THEN a
  ELSE ((a + b) % 2) + 2 * xor(a \div 2, b \div 2)

\* byte i (from 0) of the keystream AES_key(nonce || counter), the counter
\* starting at initial_value
keystream(key, nonce, initial_value, i) ==
  (key * 37 + nonce * 101 + (initial_value + i) * 59 + 180) % 256

\* cipher.encrypt(data) and cipher.decrypt(data) of a CTR cipher: the data
\* xor the next len(data) bytes of the keystream
ctr_crypt(cipher, data) ==
  [i \in 1..Len(data) |->
     xor(data[i], keystream(cipher.key, cipher.nonce, cipher.initial_value,
                            cipher.pos + i - 1))]

ctr_advance(cipher, data) == [cipher EXCEPT !.pos = @ + Len(data)]

\* ------------------------------------------------- BLEService.get_instance
\* The classes through which the class method get_instance can be called.
\* cls.__BLE_service_instance is the attribute _BLEService__BLE_service_instance
\* of cls: BLEService defines it as None, a subclass holds one of its own
\* only after a call through that subclass assigned it.
Classes == {"BLEService", "BLEServiceNative", "BLEServiceXBee"}

Unset == [unset |-> TRUE]

NoInstances ==
  [c \in Classes |-> IF c = "BLEService" THEN None ELSE Unset]

XBEE_PORT_BAUDRATES == <<9600, 115200, 1200, 2400, 4800, 19200, 38400, 57600>>

\* no thread is inside process_srp_request
NoCall == [pc |-> "idle", frame |-> <<>>, reply |-> <<>>, key |-> 0,
           tx_nonce |-> 0, rx_nonce |-> 0]

\* what the body of the try block does at one baud rate: XBeeDevice, open,
\* enable_bluetooth, get_parameter('$S') and BLEServiceXBee all succeed, or
\* one of them raises
TryOutcomes == {"ok", "XBeeException", "InvalidOperatingModeException"}

\* the radio on the serial port as one probe finds it: an outcome per rate
RadioEnvs ==
  {f \in [1..Len(XBEE_PORT_BAUDRATES) -> TryOutcomes] :
     Cardinality({i \in 1..Len(XBEE_PORT_BAUDRATES) : f[i] # "XBeeException"})
       <= MaxLive}

\* the value of cls.__BLE_service_instance: the attribute of cls itself, or
\* the one inherited from BLEService
read_instance(attr, cls) == IF attr[cls] # Unset THEN attr[cls] ELSE attr["BLEService"]

\* a call made while get_instance runs: the probe of the local radio with
\* its answer (1 for True, 0 for False), the baud rate tried under the name
\* of its outcome, the instance returned under its identity
Probe(fn, arg) == [fn |-> fn, arg |-> arg]

\* the for loop over XBEE_PORT_BAUDRATES from index i: the rate adopted
\* (<<>> for none), whether sys.exit(1) was called, the rates tried
RECURSIVE probe_baud_rates(_, _, _)
probe_baud_rates(i, outcome, tried) ==
  IF i > Len(XBEE_PORT_BAUDRATES)
  THEN [found |-> <<>>, exit |-> FALSE, tried |-> tried]
  ELSE LET baud_rate == XBEE_PORT_BAUDRATES[i]
           now == Append(tried, Probe(outcome[i], baud_rate))
       IN IF outcome[i] = "ok"
          THEN [found |-> <<baud_rate>>, exit |-> FALSE, tried |-> now]
          ELSE IF outcome[i] = "InvalidOperatingModeException"
          THEN [found |-> <<>>, exit |-> TRUE, tried |-> now]
          ELSE probe_baud_rates(i + 1, outcome, now)

\* a service instance: its variant, the baud rate of its radio (0 for the
\* native variant) and its identity
Instance(variant, baud_rate, id) == [variant |-> variant, baud |-> baud_rate, id |-> id]

GetResult(raised, ret, attr, n, exit, trace) ==
  [raised |-> raised, ret |-> ret, attr |-> attr, created |-> n, exited |-> exit,
   trace |-> trace]

\* mutant: None is returned when no interface is found
get_instance_ReturnsNone(cls, attr, n, available, outcome) ==
  IF read_instance(attr, cls) # None
  THEN GetResult("", read_instance(attr, cls), attr, n, FALSE, <<>>)
  ELSE LET local == <<Probe("is_bluetooth_available", IF available THEN 1 ELSE 0)>>
       IN IF available
          THEN LET inst == Instance("native", 0, n + 1)
               IN GetResult("", inst, [attr EXCEPT ![cls] = inst], n + 1, FALSE, local)
          ELSE LET loop == probe_baud_rates(1, outcome, <<>>)
               IN IF loop.exit
                  THEN GetResult("SystemExit", None, attr, n, TRUE, local \o loop.tried)
                  ELSE IF loop.found # <<>>
                  THEN LET inst == Instance("xbee", loop.found[1], n + 1)
                       IN GetResult("", inst, [attr EXCEPT ![cls] = inst], n + 1,
                                    FALSE, local \o loop.tried)
                  ELSE GetResult("", None, attr, n, FALSE, local \o loop.tried)

\* get_instance() called through the class cls; attr is the attribute
\* __BLE_service_instance per class, n the number of instances constructed,
\* available what GATTServer.is_bluetooth_available() answers, outcome the
\* radio on the serial port
get_instance(cls, attr, n, available, outcome) ==
  IF read_instance(attr, cls) # None
  THEN GetResult("", read_instance(attr, cls), attr, n, FALSE, <<>>)
  ELSE LET local == <<Probe("is_bluetooth_available", IF available THEN 1 ELSE 0)>>
       IN IF available
          THEN LET inst == Instance("native", 0, n + 1)
               IN GetResult("", inst, [attr EXCEPT ![cls] = inst], n + 1, FALSE, local)
          ELSE LET loop == probe_baud_rates(1, outcome, <<>>)
               IN IF loop.exit
                  THEN GetResult("SystemExit", None, attr, n, TRUE, local \o loop.tried)
                  ELSE IF loop.found # <<>>
                  THEN LET inst == Instance("xbee", loop.found[1], n + 1)
                       IN GetResult("", inst, [attr EXCEPT ![cls] = inst], n + 1,
                                    FALSE, local \o loop.tried)
                  ELSE GetResult("BluetoothNotSupportedException", None, attr, n,
                                 FALSE, local \o loop.tried)

\* ------------------------------------------------------------------- state
VARIABLES
  salt,               \* BLESecurityManager.salt
  verification_key,   \* BLESecurityManager.verification_key
  verifier,           \* BLESecurityManager.verifier; None while the class has
                      \* no such attribute (it is first assigned by phase 1)
  encryptor,          \* BLESecurityManager.encryptor
  decryptor,          \* BLESecurityManager.decryptor
  encrypt,            \* BLESecurityManager.encrypt
  service_active,     \* BLEService.service_active
  on_data_received,   \* BLEService._on_data_received
  connected,          \* the link state BlueZ reports to the GATT server
  peer,               \* the connected central: its two session ciphers
  last,               \* the last operation: input, exception, output
  on_connect,         \* BLEService._on_connect
  on_disconnect,      \* BLEService._on_disconnect
  advertisement_registered,  \* BlueZ holds the advertisement of the GATT server
  xbee_connected,     \* BLEServiceXBee._connected
  xbee_service_active,   \* service_active of the BLEServiceXBee instance
  stop_service_event, \* BLEServiceXBee._stop_service_event is set
  wait_threads,       \* threads blocked in _stop_service_event.wait
  BLE_service_instance,  \* __BLE_service_instance, per class that holds it
  created,            \* number of service instances constructed so far
  exited,             \* the process has ended: sys.exit, or the main thread died
  srp_call,           \* the process_srp_request call a thread is inside of
  is_connected_call,  \* the is_connected call a thread is inside of
  behaviour,          \* what each observer function does when it is called
  application_thread  \* the Thread object of the sample's command loop

\* the state outside the secure session of the native variant
registries == <<on_connect, on_disconnect>>
relay == <<xbee_connected, xbee_service_active, stop_service_event, wait_threads>>
singleton == <<BLE_service_instance, created, exited>>
concurrent == <<srp_call, is_connected_call, behaviour, application_thread>>
others == <<registries, advertisement_registered, relay, singleton, concurrent>>

vars == <<salt, verification_key, verifier, encryptor, decryptor, encrypt,
          service_active, on_data_received, connected, peer, last, others>>

security == <<salt, verification_key, verifier, encryptor, decryptor, encrypt>>

\* the class attributes of BLESecurityManager as one value
Cls == [salt |-> salt, verification_key |-> verification_key,
        verifier |-> verifier, encryptor |-> encryptor,
        decryptor |-> decryptor, encrypt |-> encrypt]

\* a call made while an operation runs, in the order of the calls
Call(fn, arg) == [fn |-> fn, arg |-> arg]

\* ------------------------------------------------- BLE_security_manager.py
\* Every method takes the class attributes cls and yields the exception
\* raised ("" for none), the value returned (<<>> for None, <<x>> for x) and
\* the class attributes afterwards.
Result(raised, ret, cls) == [raised |-> raised, ret |-> ret, cls |-> cls]

\* new_cipher(session_key, nonce): a CTR cipher at the start of its keystream
new_cipher(session_key, nonce) ==
  [key |-> session_key, nonce |-> nonce, initial_value |-> COUNTER_INITIAL,
   pos |-> 0]

\* mutant: what the docstring says, "plain data if the encrypt flag is set
\* to False", instead of raising
encrypt_data_PlainWhenOff(cls, data) ==
  IF cls.encrypt
  THEN Result("", <<ctr_crypt(cls.encryptor, data)>>,
              [cls EXCEPT !.encryptor = ctr_advance(@, data)])
  ELSE Result("", <<data>>, cls)

encrypt_data(cls, data) ==
  IF cls.encrypt
  THEN Result("", <<ctr_crypt(cls.encryptor, data)>>,
              [cls EXCEPT !.encryptor = ctr_advance(@, data)])
  ELSE Result("NotAuthenticatedException", <<>>, cls)

\* mutant: what the docstring says, "encrypted data if the encrypt flag is
\* set to False", instead of raising
decrypt_data_DataWhenOff(cls, data) ==
  IF cls.encrypt
  THEN Result("", <<ctr_crypt(cls.decryptor, data)>>,
              [cls EXCEPT !.decryptor = ctr_advance(@, data)])
  ELSE Result("", <<data>>, cls)

decrypt_data(cls, data) ==
  IF cls.encrypt
  THEN Result("", <<ctr_crypt(cls.decryptor, data)>>,
              [cls EXCEPT !.decryptor = ctr_advance(@, data)])
  ELSE Result("NotAuthenticatedException", <<>>, cls)

\* generate_salted_verification_key(api_password); s is the random salt
generate_salted_verification_key(cls, api_password, s) ==
  [cls EXCEPT !.salt = s, !.verification_key = verification_key_of(api_password, s)]

\* the phase-1 branch; b is the verifier's random private value
srp_phase_1(cls, frame_data, b) ==
  LET client_ephemeral_A == fromhex(hex_to_string(Slice(frame_data, 5, 5 + A_LEN)))
      ver == Verifier(cls.salt, cls.verification_key, client_ephemeral_A, b)
      server_ephemeral_B == get_challenge(ver)
      payload == IF server_ephemeral_B = <<>>
                 THEN Zeros(B_OFFERING_ERROR)   \* bytearray(0x80): 128 zero bytes
                 ELSE <<PHASE_2>> \o <<cls.salt>> \o server_ephemeral_B
  IN Result("", <<output(FRAME_UNKNOWN, payload)>>, [cls EXCEPT !.verifier = ver])

\* mutant: the encrypt flag set without the test "if key is not None"
srp_phase_3_FlagAlways(cls, frame_data, tx_nonce, rx_nonce) ==
  IF cls.verifier = None THEN Result("AttributeError", <<>>, cls)
  ELSE
  LET client_proof_M1 == fromhex(hex_to_string(Slice(frame_data, 5, 5 + M1_LEN)))
      vs == verify_session(cls.verifier, client_proof_M1)
      bad == vs.ret = <<>> \/ ~vs.ver.authenticated
      payload == IF bad THEN <<BAD_PROOF_OF_KEY>>
                 ELSE <<PHASE_4>> \o vs.ret \o <<tx_nonce>> \o <<rx_nonce>>
      ciphers == IF bad THEN [cls EXCEPT !.verifier = vs.ver]
                 ELSE [cls EXCEPT !.verifier = vs.ver,
                                  !.encryptor = new_cipher(vs.ver.K, rx_nonce),
                                  !.decryptor = new_cipher(vs.ver.K, tx_nonce)]
  IN Result("", <<output(FRAME_UNKNOWN, payload)>>, [ciphers EXCEPT !.encrypt = TRUE])

\* mutant: the proof read from frame_data[4:36], one byte early
srp_phase_3_ProofOffByOne(cls, frame_data, tx_nonce, rx_nonce) ==
  IF cls.verifier = None THEN Result("AttributeError", <<>>, cls)
  ELSE
  LET client_proof_M1 == fromhex(hex_to_string(Slice(frame_data, 4, 4 + M1_LEN)))
      vs == verify_session(cls.verifier, client_proof_M1)
      bad == vs.ret = <<>> \/ ~vs.ver.authenticated
      payload == IF bad THEN <<BAD_PROOF_OF_KEY>>
                 ELSE <<PHASE_4>> \o vs.ret \o <<tx_nonce>> \o <<rx_nonce>>
      ciphers == IF bad THEN [cls EXCEPT !.verifier = vs.ver]
                 ELSE [cls EXCEPT !.verifier = vs.ver,
                                  !.encryptor = new_cipher(vs.ver.K, rx_nonce),
                                  !.decryptor = new_cipher(vs.ver.K, tx_nonce),
                                  !.encrypt = TRUE]
  IN Result("", <<output(FRAME_UNKNOWN, payload)>>, ciphers)

\* mutant: the encryptor seeded with tx_nonce and the decryptor with rx_nonce
srp_phase_3_NoncesSwapped(cls, frame_data, tx_nonce, rx_nonce) ==
  IF cls.verifier = None THEN Result("AttributeError", <<>>, cls)
  ELSE
  LET client_proof_M1 == fromhex(hex_to_string(Slice(frame_data, 5, 5 + M1_LEN)))
      vs == verify_session(cls.verifier, client_proof_M1)
      bad == vs.ret = <<>> \/ ~vs.ver.authenticated
      payload == IF bad THEN <<BAD_PROOF_OF_KEY>>
                 ELSE <<PHASE_4>> \o vs.ret \o <<tx_nonce>> \o <<rx_nonce>>
      ciphers == IF bad THEN [cls EXCEPT !.verifier = vs.ver]
                 ELSE [cls EXCEPT !.verifier = vs.ver,
                                  !.encryptor = new_cipher(vs.ver.K, tx_nonce),
                                  !.decryptor = new_cipher(vs.ver.K, rx_nonce),
                                  !.encrypt = TRUE]
  IN Result("", <<output(FRAME_UNKNOWN, payload)>>, ciphers)

\* mutant: the ciphers created from the nonces before the verifier is used
srp_phase_3_CiphersFirst(cls, frame_data, tx_nonce, rx_nonce) ==
  IF cls.verifier = None
  THEN Result("AttributeError", <<>>,
              [cls EXCEPT !.encryptor = new_cipher(0, rx_nonce),
                          !.decryptor = new_cipher(0, tx_nonce)])
  ELSE
  LET client_proof_M1 == fromhex(hex_to_string(Slice(frame_data, 5, 5 + M1_LEN)))
      vs == verify_session(cls.verifier, client_proof_M1)
      bad == vs.ret = <<>> \/ ~vs.ver.authenticated
      payload == IF bad THEN <<BAD_PROOF_OF_KEY>>
                 ELSE <<PHASE_4>> \o vs.ret \o <<tx_nonce>> \o <<rx_nonce>>
      ciphers == IF bad THEN [cls EXCEPT !.verifier = vs.ver]
                 ELSE [cls EXCEPT !.verifier = vs.ver,
                                  !.encryptor = new_cipher(vs.ver.K, rx_nonce),
                                  !.decryptor = new_cipher(vs.ver.K, tx_nonce),
                                  !.encrypt = TRUE]
  IN Result("", <<output(FRAME_UNKNOWN, payload)>>, ciphers)

\* mutant: the reply lists rx_nonce before tx_nonce
srp_phase_3_ReplyNoncesSwapped(cls, frame_data, tx_nonce, rx_nonce) ==
  IF cls.verifier = None THEN Result("AttributeError", <<>>, cls)
  ELSE
  LET client_proof_M1 == fromhex(hex_to_string(Slice(frame_data, 5, 5 + M1_LEN)))
      vs == verify_session(cls.verifier, client_proof_M1)
      bad == vs.ret = <<>> \/ ~vs.ver.authenticated
      payload == IF bad THEN <<BAD_PROOF_OF_KEY>>
                 ELSE <<PHASE_4>> \o vs.ret \o <<rx_nonce>> \o <<tx_nonce>>
      ciphers == IF bad THEN [cls EXCEPT !.verifier = vs.ver]
                 ELSE [cls EXCEPT !.verifier = vs.ver,
                                  !.encryptor = new_cipher(vs.ver.K, rx_nonce),
                                  !.decryptor = new_cipher(vs.ver.K, tx_nonce),
                                  !.encrypt = TRUE]
  IN Result("", <<output(FRAME_UNKNOWN, payload)>>, ciphers)

\* mutant: a failed proof drops the ciphers of the session
srp_phase_3_BadProofClears(cls, frame_data, tx_nonce, rx_nonce) ==
  IF cls.verifier = None THEN Result("AttributeError", <<>>, cls)
  ELSE
  LET client_proof_M1 == fromhex(hex_to_string(Slice(frame_data, 5, 5 + M1_LEN)))
      vs == verify_session(cls.verifier, client_proof_M1)
      bad == vs.ret = <<>> \/ ~vs.ver.authenticated
      payload == IF bad THEN <<BAD_PROOF_OF_KEY>>
                 ELSE <<PHASE_4>> \o vs.ret \o <<tx_nonce>> \o <<rx_nonce>>
      ciphers == IF bad THEN [cls EXCEPT !.verifier = vs.ver, !.encryptor = None,
                                         !.decryptor = None, !.encrypt = FALSE]
                 ELSE [cls EXCEPT !.verifier = vs.ver,
                                  !.encryptor = new_cipher(vs.ver.K, rx_nonce),
                                  !.decryptor = new_cipher(vs.ver.K, tx_nonce),
                                  !.encrypt = TRUE]
  IN Result("", <<output(FRAME_UNKNOWN, payload)>>, ciphers)

\* mutant: the decryptor is not assigned
srp_phase_3_OnlyEncryptor(cls, frame_data, tx_nonce, rx_nonce) ==
  IF cls.verifier = None THEN Result("AttributeError", <<>>, cls)
  ELSE
  LET client_proof_M1 == fromhex(hex_to_string(Slice(frame_data, 5, 5 + M1_LEN)))
      vs == verify_session(cls.verifier, client_proof_M1)
      bad == vs.ret = <<>> \/ ~vs.ver.authenticated
      payload == IF bad THEN <<BAD_PROOF_OF_KEY>>
                 ELSE <<PHASE_4>> \o vs.ret \o <<tx_nonce>> \o <<rx_nonce>>
      ciphers == IF bad THEN [cls EXCEPT !.verifier = vs.ver]
                 ELSE [cls EXCEPT !.verifier = vs.ver,
                                  !.encryptor = new_cipher(vs.ver.K, rx_nonce),
                                  !.encrypt = TRUE]
  IN Result("", <<output(FRAME_UNKNOWN, payload)>>, ciphers)

\* the phase-3 branch; tx_nonce and rx_nonce are the two os.urandom(12)
srp_phase_3(cls, frame_data, tx_nonce, rx_nonce) ==
  IF cls.verifier = None THEN Result("AttributeError", <<>>, cls)
  ELSE
  LET client_proof_M1 == fromhex(hex_to_string(Slice(frame_data, 5, 5 + M1_LEN)))
      vs == verify_session(cls.verifier, client_proof_M1)
      server_proof_M2 == vs.ret
      bad == server_proof_M2 = <<>> \/ ~vs.ver.authenticated
      key == IF bad THEN <<>> ELSE get_session_key(vs.ver)
      payload == IF bad THEN <<BAD_PROOF_OF_KEY>>
                 ELSE <<PHASE_4>> \o server_proof_M2 \o <<tx_nonce>> \o <<rx_nonce>>
      ciphers == IF bad THEN [cls EXCEPT !.verifier = vs.ver]
                 ELSE [cls EXCEPT !.verifier = vs.ver,
                                  !.encryptor = new_cipher(key[1], rx_nonce),
                                  !.decryptor = new_cipher(key[1], tx_nonce)]
  IN Result("", <<output(FRAME_UNKNOWN, payload)>>,
            IF key # <<>> THEN [ciphers EXCEPT !.encrypt = TRUE] ELSE ciphers)

process_srp_request(cls, frame_data, b, tx_nonce, rx_nonce) ==
  IF Len(frame_data) <= 4 THEN Result("IndexError", <<>>, cls)
  ELSE IF frame_data[5] = PHASE_1 THEN srp_phase_1(cls, frame_data, b)
  ELSE IF frame_data[5] = PHASE_3
       THEN srp_phase_3(cls, frame_data, tx_nonce, rx_nonce)
  ELSE Result("", <<>>, cls)

\* ------------------------------------------- BLEService.py, BLEServiceNative
\* Every method yields the exception raised, the class attributes afterwards
\* and the calls it made, in order: process_srp_request, encrypt_data and
\* decrypt_data with their argument, decrypted_data (what decrypt_data
\* returned), callback (an observer and its argument) and send_rx_data (the
\* frame handed to the GATT server).
Outcome(raised, cls, trace) == [raised |-> raised, cls |-> cls, trace |-> trace]

\* UserDataRelayOutputPacket(XBeeLocalInterface.BLUETOOTH, data).output()
relay_output(data) == output(FRAME_RELAY_OUTPUT, <<IFACE_BLUETOOTH>> \o data)

\* mutant: no test for 0xAC, every frame is relay-wrapped and encrypted
send_data_EncryptsAll(cls, data) ==
  IF data = <<>> THEN Outcome("TypeError", cls, <<>>)
  ELSE LET sent_data == relay_output(data[1])
           enc == encrypt_data(cls, sent_data)
           step == <<Call("encrypt_data", sent_data)>>
       IN IF enc.raised # "" THEN Outcome(enc.raised, cls, step)
          ELSE Outcome("", enc.cls, step \o <<Call("send_rx_data", enc.ret[1])>>)

\* send_data(data); data is <<>> for None and <<bytes>> otherwise
send_data(cls, data) ==
  IF data = <<>> THEN Outcome("TypeError", cls, <<>>)
  ELSE IF Len(data[1]) > 3 /\ data[1][4] = FRAME_UNKNOWN
  THEN IF check_api_packet(data[1], 5)
       THEN Outcome("", cls, <<Call("send_rx_data", data[1])>>)
       ELSE Outcome("InvalidPacketException", cls, <<>>)
  ELSE LET sent_data == relay_output(data[1])
           enc == encrypt_data(cls, sent_data)
           step == <<Call("encrypt_data", sent_data)>>
       IN IF enc.raised # "" THEN Outcome(enc.raised, cls, step)
          ELSE Outcome("", enc.cls, step \o <<Call("send_rx_data", enc.ret[1])>>)

\* mutant: the observers called from the last registered to the first
notify_Reversed(observers, payload) ==
  [i \in 1..Len(observers) |->
     Call("callback", <<observers[Len(observers) + 1 - i], payload>>)]

\* the observers of self._on_data_received called with payload, in list order
notify(observers, payload) ==
  [i \in 1..Len(observers) |-> Call("callback", <<observers[i], payload>>)]

\* mutant: no test for the AT command frame type 0x08
execute_user_data_received_callbacks_NoATFilter(cls, observers, data, b, tx_nonce, rx_nonce) ==
  IF Len(data) > 3 /\ data[4] = FRAME_UNLOCK
  THEN LET srp == process_srp_request(cls, data, b, tx_nonce, rx_nonce)
           step == <<Call("process_srp_request", data)>>
       IN IF srp.raised # "" THEN Outcome(srp.raised, srp.cls, step)
          ELSE LET sent == send_data(srp.cls, srp.ret)
               IN Outcome(sent.raised, sent.cls, step \o sent.trace)
  ELSE LET dec == decrypt_data(cls, data)
           step == <<Call("decrypt_data", data)>>
       IN IF dec.raised # "" THEN Outcome(dec.raised, cls, step)
          ELSE LET decrypted_data == dec.ret[1]
                   done == step \o <<Call("decrypted_data", decrypted_data)>>
               IN IF ~check_api_packet(decrypted_data, 7)
                          \/ decrypted_data[4] # FRAME_RELAY_REQUEST
                  THEN Outcome("InvalidPacketException", dec.cls, done)
                  ELSE Outcome("", dec.cls,
                               done \o notify(observers, SliceToLast(decrypted_data, 6)))

\* mutant: InvalidPacketException is swallowed, the frame is dropped
execute_user_data_received_callbacks_DropsMalformed(cls, observers, data, b, tx_nonce, rx_nonce) ==
  IF Len(data) > 3 /\ data[4] = FRAME_UNLOCK
  THEN LET srp == process_srp_request(cls, data, b, tx_nonce, rx_nonce)
           step == <<Call("process_srp_request", data)>>
       IN IF srp.raised # "" THEN Outcome(srp.raised, srp.cls, step)
          ELSE LET sent == send_data(srp.cls, srp.ret)
               IN Outcome(sent.raised, sent.cls, step \o sent.trace)
  ELSE LET dec == decrypt_data(cls, data)
           step == <<Call("decrypt_data", data)>>
       IN IF dec.raised # "" THEN Outcome(dec.raised, cls, step)
          ELSE LET decrypted_data == dec.ret[1]
                   done == step \o <<Call("decrypted_data", decrypted_data)>>
               IN IF Len(decrypted_data) > 3 /\ decrypted_data[4] = FRAME_AT_COMMAND
                  THEN Outcome("", dec.cls, done)
                  ELSE IF ~check_api_packet(decrypted_data, 7)
                          \/ decrypted_data[4] # FRAME_RELAY_REQUEST
                  THEN Outcome("", dec.cls, done)
                  ELSE Outcome("", dec.cls,
                               done \o notify(observers, SliceToLast(decrypted_data, 6)))

\* _execute_user_data_received_callbacks(data)
execute_user_data_received_callbacks(cls, observers, data, b, tx_nonce, rx_nonce) ==
  IF Len(data) > 3 /\ data[4] = FRAME_UNLOCK
  THEN LET srp == process_srp_request(cls, data, b, tx_nonce, rx_nonce)
           step == <<Call("process_srp_request", data)>>
       IN IF srp.raised # "" THEN Outcome(srp.raised, srp.cls, step)
          ELSE LET sent == send_data(srp.cls, srp.ret)
               IN Outcome(sent.raised, sent.cls, step \o sent.trace)
  ELSE LET dec == decrypt_data(cls, data)
           step == <<Call("decrypt_data", data)>>
       IN IF dec.raised # "" THEN Outcome(dec.raised, cls, step)
          ELSE LET decrypted_data == dec.ret[1]
                   done == step \o <<Call("decrypted_data", decrypted_data)>>
               IN IF Len(decrypted_data) > 3 /\ decrypted_data[4] = FRAME_AT_COMMAND
                  THEN Outcome("", dec.cls, done)
                  ELSE IF ~check_api_packet(decrypted_data, 7)
                          \/ decrypted_data[4] # FRAME_RELAY_REQUEST
                  THEN Outcome("InvalidPacketException", dec.cls, done)
                  ELSE Outcome("", dec.cls,
                               done \o notify(observers, SliceToLast(decrypted_data, 6)))

\* mutant: the observers of a connection list called last to first
notify_connection_Reversed(list_name, observers) ==
  [i \in 1..Len(observers) |-> Call(list_name, observers[Len(observers) + 1 - i])]

\* the observers of a connection list called without argument, in list order
notify_connection(list_name, observers) ==
  [i \in 1..Len(observers) |-> Call(list_name, observers[i])]

\* _execute_user_connection_callbacks(status), status a GATTConnectionStatus:
\* the native variant keeps no state of its own about the link and does not
\* touch BLESecurityManager
execute_user_connection_callbacks(cls, connect_list, disconnect_list, status) ==
  IF status = "CONNECTED"
  THEN Outcome("", cls, notify_connection("on_connect", connect_list))
  ELSE IF status = "DISCONNECTED"
  THEN Outcome("", cls, notify_connection("on_disconnect", disconnect_list))
  ELSE Outcome("", cls, <<>>)

\* mutant: _connected assigned after the observers have run
xbee_execute_user_connection_callbacks_SetLast(was_connected, connect_list, disconnect_list, status) ==
  IF status = "BLUETOOTH_CONNECTED"
  THEN [connected |-> TRUE,
        trace |-> notify_connection("on_connect", connect_list)
                    \o <<Call("_connected", 1)>>]
  ELSE IF status = "BLUETOOTH_DISCONNECTED"
  THEN [connected |-> FALSE,
        trace |-> notify_connection("on_disconnect", disconnect_list)
                    \o <<Call("_connected", 0)>>]
  ELSE [connected |-> was_connected, trace |-> <<>>]

\* BLEServiceXBee._execute_user_connection_callbacks(status), status a
\* ModemStatus: the assignment of self._connected (recorded as 1 for True
\* and 0 for False), then the observers
xbee_execute_user_connection_callbacks(was_connected, connect_list, disconnect_list, status) ==
  IF status = "BLUETOOTH_CONNECTED"
  THEN [connected |-> TRUE,
        trace |-> <<Call("_connected", 1)>>
                    \o notify_connection("on_connect", connect_list)]
  ELSE IF status = "BLUETOOTH_DISCONNECTED"
  THEN [connected |-> FALSE,
        trace |-> <<Call("_connected", 0)>>
                    \o notify_connection("on_disconnect", disconnect_list)]
  ELSE [connected |-> was_connected, trace |-> <<>>]

\* BLEServiceXBee.is_connected()
xbee_is_connected(is_connected) == is_connected

\* ------------------------------------------------------------ GATTServer.py
\* GATTServer.start(): register_advertisement, then the main loop of the
\* application runs; registering an advertisement BlueZ already holds is
\* reported to the error handler and changes nothing
gatt_start(registered) == [raised |-> "", registered |-> TRUE]

\* GATTServer.stop(): unregister_advertisement, then app.stop(); BlueZ
\* answers UnregisterAdvertisement for an advertisement it does not hold
\* with org.bluez.Error.DoesNotExist, which the call raises
gatt_stop(registered) ==
  IF registered THEN [raised |-> "", registered |-> FALSE]
  ELSE [raised |-> "DBusException", registered |-> FALSE]

\* BLEServiceXBee._execute_user_data_received_callbacks(data): the data the
\* radio delivers goes to the observers as it is
xbee_execute_user_data_received_callbacks(cls, observers, data) ==
  Outcome("", cls, notify(observers, data))

\* add_data_received_callback(callback)
add_data_received_callback(observers, callback) == Append(observers, callback)

\* del_data_received_callback(callback): list.remove drops the first match
RECURSIVE remove(_, _)
remove(list, x) ==
  IF list = <<>> THEN <<>>
  ELSE IF list[1] = x THEN Tail(list)
  ELSE <<list[1]>> \o remove(Tail(list), x)

del_data_received_callback(observers, callback) ==
  IF \E i \in 1..Len(observers) : observers[i] = callback
  THEN remove(observers, callback) ELSE observers

\* add_connect_callback(callback), add_disconnect_callback(callback)
add_connect_callback(observers, callback) == Append(observers, callback)
add_disconnect_callback(observers, callback) == Append(observers, callback)

\* del_connect_callback(callback), del_disconnect_callback(callback)
del_connect_callback(observers, callback) ==
  IF \E i \in 1..Len(observers) : observers[i] = callback
  THEN remove(observers, callback) ELSE observers

del_disconnect_callback(observers, callback) ==
  IF \E i \in 1..Len(observers) : observers[i] = callback
  THEN remove(observers, callback) ELSE observers

\* ---------------------------------------------------------------- the peer
\* The central at the other end of the link.  It keeps the mirrored ciphers
\* of the session: it encrypts with (session key, tx_nonce) and decrypts
\* with (session key, rx_nonce), both nonces read from the phase-4 reply.
FreshPeer == [enc |-> None, dec |-> None, rejected |-> FALSE]

IsPhase4Reply(frame) ==
  /\ Len(frame) = 5 + M2_LEN + 2 * NONCE_LEN + 1
  /\ frame[4] = FRAME_UNKNOWN
  /\ frame[5] = PHASE_4

IsBadProofReply(frame) == frame = output(FRAME_UNKNOWN, <<BAD_PROOF_OF_KEY>>)

\* the frames an operation handed to GATTServer.send_rx_data, in order
RECURSIVE Sent(_)
Sent(trace) ==
  IF trace = <<>> THEN <<>>
  ELSE IF trace[1].fn = "send_rx_data" THEN <<trace[1].arg>> \o Sent(Tail(trace))
  ELSE Sent(Tail(trace))

\* the peer after the reply to a handshake request; session_key is the key
\* the peer derived itself, equal to the verifier's when its proof was right
PeerAfterReply(p, sent, session_key) ==
  IF sent = <<>> THEN p
  ELSE IF IsPhase4Reply(sent[1])
  THEN [p EXCEPT !.enc = new_cipher(session_key, sent[1][5 + M2_LEN + 1]),
                 !.dec = new_cipher(session_key, sent[1][5 + M2_LEN + NONCE_LEN + 1])]
  ELSE IF IsBadProofReply(sent[1]) THEN [p EXCEPT !.rejected = TRUE]
  ELSE p

\* the peer after a frame the server's encryptor produced
PeerAfterData(p, trace) ==
  IF p.dec # None /\ Sent(trace) # <<>>
        /\ \E i \in 1..Len(trace) : trace[i].fn = "encrypt_data"
  THEN [p EXCEPT !.dec = ctr_advance(p.dec, Sent(trace)[1])]
  ELSE p

\* ------------------------------------------------------------------ inputs
UnlockFrame(payload) == output(FRAME_UNLOCK, payload)

\* the proofs a client may present: a wrong one, and the one the current
\* verifier expects (the client knows the password)
Proofs == WrongProofs \cup
          (IF verifier # None /\ ~verifier.safety_failed THEN {verifier.M} ELSE {})

HandshakeFrames ==
  {UnlockFrame(<<PHASE_1, a>>) : a \in AVals}
    \cup {UnlockFrame(<<PHASE_3, m>>) : m \in Proofs}
    \cup { <<HEADER_BYTE, 0, 2, FRAME_UNLOCK, PHASE_1>>,   \* A missing
           <<HEADER_BYTE, 0, 1, FRAME_UNLOCK>>,            \* no phase code
           UnlockFrame(<<PHASE_2>>) }                      \* not a request phase

\* a User Data Relay frame carrying payload, as the peer builds it
RelayRequest(payload) == output(FRAME_RELAY_REQUEST, <<1, IFACE_BLUETOOTH>> \o payload)

\* plaintext frames the peer encrypts once it holds the session ciphers
PeerFrames ==
  { RelayRequest(<<66>>),
    output(FRAME_AT_COMMAND, <<1, 78, 73>>),     \* an AT command frame
    <<1, 2, 3, 4, 5, 6, 7, 8>>,                  \* no API frame at all
    <<1, 2, 3, 8, 5, 6, 7, 8>> }                 \* nor this, 0x08 at offset 3

\* frames that reach the server as they are
RawFrames ==
  HandshakeFrames \cup { RelayRequest(<<66>>), <<1, 2>>,
                          output(FRAME_UNKNOWN, <<PHASE_2, 1, 1>>) }

\* payloads the application passes to send_data
AppPayloads ==
  { <<65>>,
    output(FRAME_UNKNOWN, <<PHASE_2>>),          \* a well-formed 0xAC frame
    <<1, 2, 3, FRAME_UNKNOWN>> }                 \* 0xAC at offset 3, no frame

\* ----------------------------------------------------------------- actions
\* last: the operation, its argument, the plaintext the peer encrypted to
\* make the argument, the exception raised, the calls made, and what the
\* peer decrypted from the frame sent
Last(op, arg, plain, raised, trace, peer_recv) ==
  [op |-> op, arg |-> arg, plain |-> plain, raised |-> raised, trace |-> trace,
   peer_recv |-> peer_recv]

Quiet(op, arg) == Last(op, arg, <<>>, "", <<>>, <<>>)

SetCls(cls) ==
  /\ salt' = cls.salt
  /\ verification_key' = cls.verification_key
  /\ verifier' = cls.verifier
  /\ encryptor' = cls.encryptor
  /\ decryptor' = cls.decryptor
  /\ encrypt' = cls.encrypt

\* the session ciphers have keystream left for data (bounds the run)
Room(data) == encrypt => encryptor.pos + decryptor.pos + Len(data) <= MaxStream

\* the state outside the secure session after construction: empty observer
\* lists, nothing advertised, no XBee link, no stored instance
Elsewhere ==
  /\ on_connect = <<>>
  /\ on_disconnect = <<>>
  /\ advertisement_registered = FALSE
  /\ xbee_connected = FALSE
  /\ xbee_service_active = FALSE
  /\ stop_service_event = FALSE
  /\ wait_threads = 0
  /\ BLE_service_instance = NoInstances
  /\ created = 0
  /\ exited = FALSE
  /\ srp_call = NoCall
  /\ is_connected_call = "idle"
  /\ behaviour = [c \in Callbacks |-> "returns"]
  /\ application_thread = "new"

\* BLEServiceNative.__init__: generate_salted_verification_key('1234')
Init ==
  /\ salt \in Salts
  /\ verification_key = verification_key_of(DEFAULT_PASSWORD, salt)
  /\ verifier = None
  /\ encryptor = None
  /\ decryptor = None
  /\ encrypt = FALSE
  /\ service_active = FALSE
  /\ on_data_received = <<1, 2>>    \* the application registered two observers
  /\ connected = FALSE
  /\ peer = FreshPeer
  /\ last = Quiet("init", <<>>)
  /\ Elsewhere

\* the random draws a frame makes process_srp_request perform: the private
\* value b of a phase-1 verifier, the two nonces of a phase-3 reply
IsRequest(data, phase) ==
  Len(data) > 4 /\ data[4] = FRAME_UNLOCK /\ data[5] = phase

DrawB(data) == IF IsRequest(data, PHASE_1) THEN BRand ELSE {1}
DrawNonce(data) == IF IsRequest(data, PHASE_3) THEN Nonces ELSE {1}

\* a write to the tx characteristic: TxCharacteristic.WriteValue hands the
\* frame to _execute_user_data_received_callbacks; plain is what the peer
\* encrypted to make the frame (<<>> for a frame written as it is)
Deliver(op, data, plain, p) ==
  \E b \in DrawB(data), tx_nonce \in DrawNonce(data), rx_nonce \in DrawNonce(data) :
  \E r \in {execute_user_data_received_callbacks(Cls, on_data_received, data,
                                                 b, tx_nonce, rx_nonce)} :
     /\ SetCls(r.cls)
     /\ last' = Last(op, data, plain, r.raised, r.trace, <<>>)
     /\ peer' = IF Len(data) > 3 /\ data[4] = FRAME_UNLOCK /\ r.cls.verifier # None
                THEN PeerAfterReply(p, Sent(r.trace), r.cls.verifier.K)
                ELSE p
     /\ UNCHANGED <<service_active, on_data_received, connected, others>>

\* the peer writes a frame as it is: a handshake request at any time, a
\* data frame in the clear while it holds no session cipher (a server that
\* still holds ciphers is tried with the clear frames of full length)
ReceiveFrame ==
  \E data \in RawFrames :
    /\ service_active /\ connected
    /\ \/ Len(data) > 3 /\ data[4] = FRAME_UNLOCK
       \/ peer.enc = None /\ Room(data) /\ (encrypt => Len(data) = 8)
    /\ Deliver("receive", data, <<>>, peer)

\* the peer encrypts a frame with its session cipher and writes it
ReceiveEncrypted ==
  \E plain \in PeerFrames :
    /\ service_active /\ connected
    /\ peer.enc # None
    /\ \E data \in {ctr_crypt(peer.enc, plain)} :
          /\ (Len(data) > 3 /\ data[4] = FRAME_UNLOCK) \/ Room(data)
          /\ Deliver("receive_encrypted", data, plain,
                     [peer EXCEPT !.enc = ctr_advance(@, plain)])

\* the application calls send_data(data); the peer decrypts what the
\* encryptor produced
SendData ==
  \E data \in AppPayloads :
  \E r \in {send_data(Cls, <<data>>)} :
       /\ Room(relay_output(data))
       /\ SetCls(r.cls)
       /\ peer' = PeerAfterData(peer, r.trace)
       /\ last' = Last("send_data", data, <<>>, r.raised, r.trace,
                       IF peer'.dec # peer.dec
                       THEN ctr_crypt(peer.dec, Sent(r.trace)[1]) ELSE <<>>)
       /\ UNCHANGED <<service_active, on_data_received, connected, others>>

\* the command loop of the sample calls set_password(new_password), which
\* it does only while the service is not active
SetPassword ==
  \E new_password \in Passwords, s \in Salts :
    /\ ~service_active
    /\ SetCls(generate_salted_verification_key(Cls, new_password, s))
    /\ last' = Quiet("set_password", <<new_password>>)
    /\ UNCHANGED <<service_active, on_data_received, connected, peer, others>>

\* BLEServiceNative.start_service: the flag, then GATTServer.start
StartService ==
  /\ service_active' = TRUE
  /\ advertisement_registered' = gatt_start(advertisement_registered).registered
  /\ last' = Quiet("start_service", <<>>)
  /\ UNCHANGED <<security, on_data_received, connected, peer, registries, relay,
                 singleton, concurrent>>

\* BLEServiceNative.stop_service: the flag, then GATTServer.stop
StopService ==
  /\ service_active' = FALSE
  /\ advertisement_registered' = gatt_stop(advertisement_registered).registered
  /\ last' = Last("stop_service", <<>>, <<>>,
                  gatt_stop(advertisement_registered).raised, <<>>, <<>>)
  /\ UNCHANGED <<security, on_data_received, connected, peer, registries, relay,
                 singleton, concurrent>>

\* BlueZ reports Connected = True: a central connected, with no session state
Connected ==
  /\ service_active /\ ~connected
  /\ connected' = TRUE
  /\ peer' = FreshPeer
  /\ LET r == execute_user_connection_callbacks(Cls, on_connect, on_disconnect,
                                                "CONNECTED")
     IN SetCls(r.cls) /\ last' = Last("connected", <<>>, <<>>, r.raised, r.trace, <<>>)
  /\ UNCHANGED <<service_active, on_data_received, others>>

\* BlueZ reports Connected = False
Disconnected ==
  /\ connected
  /\ connected' = FALSE
  /\ peer' = FreshPeer
  /\ LET r == execute_user_connection_callbacks(Cls, on_connect, on_disconnect,
                                                "DISCONNECTED")
     IN SetCls(r.cls) /\ last' = Last("disconnected", <<>>, <<>>, r.raised, r.trace, <<>>)
  /\ UNCHANGED <<service_active, on_data_received, others>>

Next ==
  \/ ReceiveFrame
  \/ ReceiveEncrypted
  \/ SendData
  \/ SetPassword
  \/ StartService
  \/ StopService
  \/ Connected
  \/ Disconnected

Spec == Init /\ [][Next]_vars

\* ------------------------------------------ the observer registry in motion
\* BLEService.__init__ leaves the three observer lists empty; the
\* application registers and removes data-received observers at any time.
InitObservers ==
  /\ salt \in Salts
  /\ verification_key = verification_key_of(DEFAULT_PASSWORD, salt)
  /\ verifier = None
  /\ encryptor = None
  /\ decryptor = None
  /\ encrypt = FALSE
  /\ service_active = FALSE
  /\ on_data_received = <<>>
  /\ connected = FALSE
  /\ peer = FreshPeer
  /\ last = Quiet("init", <<>>)
  /\ Elsewhere

AddDataReceivedCallback ==
  \E callback \in Callbacks :
    /\ Len(on_data_received) < MaxObservers
    /\ on_data_received' = add_data_received_callback(on_data_received, callback)
    /\ last' = Quiet("add_data_received_callback", <<callback>>)
    /\ UNCHANGED <<security, service_active, connected, peer, others>>

DelDataReceivedCallback ==
  \E callback \in Callbacks :
    /\ on_data_received' = del_data_received_callback(on_data_received, callback)
    /\ last' = Quiet("del_data_received_callback", <<callback>>)
    /\ UNCHANGED <<security, service_active, connected, peer, others>>

\* data the radio of the XBee variant delivers
XBeeData == { <<66>>, <<66, 67>> }

\* the XBee variant: the radio calls _execute_user_data_received_callbacks
\* with the data it received; the observer list is the one of the base class
XBeeDataReceived ==
  \E data \in XBeeData :
  \E r \in {xbee_execute_user_data_received_callbacks(Cls, on_data_received, data)} :
    /\ SetCls(r.cls)
    /\ last' = Last("xbee_receive", data, <<>>, r.raised, r.trace, <<>>)
    /\ UNCHANGED <<service_active, on_data_received, connected, peer, others>>

NextObservers ==
  \/ AddDataReceivedCallback
  \/ DelDataReceivedCallback
  \/ StartService
  \/ Connected
  \/ ReceiveFrame
  \/ ReceiveEncrypted
  \/ XBeeDataReceived

SpecObservers == InitObservers /\ [][NextObservers]_vars

\* ------------------------------------- connection events and their observers
ModemStatuses ==
  {"BLUETOOTH_CONNECTED", "BLUETOOTH_DISCONNECTED", "HARDWARE_RESET"}

AddConnectCallback ==
  \E callback \in Callbacks :
    /\ Len(on_connect) < MaxObservers
    /\ on_connect' = add_connect_callback(on_connect, callback)
    /\ last' = Quiet("add_connect_callback", <<callback>>)
    /\ UNCHANGED <<security, service_active, on_data_received, connected, peer,
                   on_disconnect, advertisement_registered, relay, singleton, concurrent>>

DelConnectCallback ==
  \E callback \in Callbacks :
    /\ on_connect' = del_connect_callback(on_connect, callback)
    /\ last' = Quiet("del_connect_callback", <<callback>>)
    /\ UNCHANGED <<security, service_active, on_data_received, connected, peer,
                   on_disconnect, advertisement_registered, relay, singleton, concurrent>>

AddDisconnectCallback ==
  \E callback \in Callbacks :
    /\ Len(on_disconnect) < MaxObservers
    /\ on_disconnect' = add_disconnect_callback(on_disconnect, callback)
    /\ last' = Quiet("add_disconnect_callback", <<callback>>)
    /\ UNCHANGED <<security, service_active, on_data_received, connected, peer,
                   on_connect, advertisement_registered, relay, singleton, concurrent>>

DelDisconnectCallback ==
  \E callback \in Callbacks :
    /\ on_disconnect' = del_disconnect_callback(on_disconnect, callback)
    /\ last' = Quiet("del_disconnect_callback", <<callback>>)
    /\ UNCHANGED <<security, service_active, on_data_received, connected, peer,
                   on_connect, advertisement_registered, relay, singleton, concurrent>>

\* _execute_user_connection_callbacks called with GATTConnectionStatus.UNKNOWN
ConnectionStatusUnknown ==
  /\ LET r == execute_user_connection_callbacks(Cls, on_connect, on_disconnect,
                                                "UNKNOWN")
     IN SetCls(r.cls)
          /\ last' = Last("status_unknown", <<>>, <<>>, r.raised, r.trace, <<>>)
  /\ UNCHANGED <<service_active, on_data_received, connected, peer, others>>

\* the radio of the XBee variant reports a modem status
XBeeModemStatus ==
  \E status \in ModemStatuses :
  \E r \in {xbee_execute_user_connection_callbacks(xbee_connected, on_connect,
                                                    on_disconnect, status)} :
    /\ xbee_connected' = r.connected
    /\ last' = Last(status, <<>>, <<>>, "", r.trace, <<>>)
    /\ UNCHANGED <<security, service_active, on_data_received, connected, peer,
                   registries, advertisement_registered, xbee_service_active,
                   stop_service_event, wait_threads, singleton, concurrent>>

NextConnection ==
  \/ AddConnectCallback
  \/ DelConnectCallback
  \/ AddDisconnectCallback
  \/ DelDisconnectCallback
  \/ StartService
  \/ Connected
  \/ Disconnected
  \/ ConnectionStatusUnknown
  \/ XBeeModemStatus

SpecConnection == InitObservers /\ [][NextConnection]_vars

\* ------------------------------------------------- the password in motion
\* BLEServiceNative.set_password called by any application, at any time
SetPasswordCall ==
  \E new_password \in Passwords, s \in Salts :
    /\ SetCls(generate_salted_verification_key(Cls, new_password, s))
    /\ last' = Quiet("set_password_call", <<new_password>>)
    /\ UNCHANGED <<service_active, on_data_received, connected, peer, others>>

NextPassword ==
  \/ StartService
  \/ StopService
  \/ SetPasswordCall
  \/ SetPassword
  \/ Connected
  \/ Disconnected
  \/ ReceiveFrame

SpecPassword == Init /\ [][NextPassword]_vars

\* -------------------------------------------- the service on the XBee radio
\* what enable_bluetooth() or disable_bluetooth() does when called
RadioOutcomes == {"ok", "XBeeException"}

\* BLEServiceXBee.start_service: the flag, then enable_bluetooth(), then a
\* thread that waits on _stop_service_event; an XBeeException is raised
\* again before the thread is made
xbee_start_service(threads, radio) ==
  IF radio = "ok"
  THEN [raised |-> "", service_active |-> TRUE, threads |-> threads + 1]
  ELSE [raised |-> "XBeeException", service_active |-> TRUE, threads |-> threads]

\* mutant: the event is set although disable_bluetooth() raised
xbee_stop_service_AlwaysSets(event, radio) ==
  IF radio = "ok"
  THEN [raised |-> "", service_active |-> FALSE, event |-> TRUE]
  ELSE [raised |-> "XBeeException", service_active |-> FALSE, event |-> TRUE]

\* BLEServiceXBee.stop_service: the flag, then disable_bluetooth(), then
\* _stop_service_event.set(); an XBeeException is raised again before the set
xbee_stop_service(event, radio) ==
  IF radio = "ok"
  THEN [raised |-> "", service_active |-> FALSE, event |-> TRUE]
  ELSE [raised |-> "XBeeException", service_active |-> FALSE, event |-> event]

XBeeStartService ==
  \E radio \in RadioOutcomes :
    LET r == xbee_start_service(wait_threads, radio)
    IN /\ r.threads <= MaxThreads
       /\ xbee_service_active' = r.service_active
       /\ wait_threads' = r.threads
       /\ last' = Last("xbee_start_service", <<>>, <<>>, r.raised, <<>>, <<>>)
       /\ UNCHANGED <<security, service_active, on_data_received, connected, peer,
                      registries, advertisement_registered, xbee_connected,
                      stop_service_event, singleton, concurrent>>

XBeeStopService ==
  \E radio \in RadioOutcomes :
    LET r == xbee_stop_service(stop_service_event, radio)
    IN /\ xbee_service_active' = r.service_active
       /\ stop_service_event' = r.event
       /\ last' = Last("xbee_stop_service", <<>>, <<>>, r.raised, <<>>, <<>>)
       /\ UNCHANGED <<security, service_active, on_data_received, connected, peer,
                      registries, advertisement_registered, xbee_connected,
                      wait_threads, singleton, concurrent>>

\* a wait thread returns from _stop_service_event.wait() and ends
WaitThreadExit ==
  /\ stop_service_event
  /\ wait_threads > 0
  /\ wait_threads' = wait_threads - 1
  /\ UNCHANGED <<security, service_active, on_data_received, connected, peer, last,
                 registries, advertisement_registered, xbee_connected,
                 xbee_service_active, stop_service_event, singleton, concurrent>>

NextService ==
  \/ StartService
  \/ StopService
  \/ Connected
  \/ Disconnected
  \/ XBeeStartService
  \/ XBeeStopService
  \/ XBeeModemStatus
  \/ WaitThreadExit

SpecService == Init /\ [][NextService]_vars

\* a thread whose event is set does return from wait()
SpecServiceFair == SpecService /\ WF_vars(WaitThreadExit)

\* --------------------------------------- the handshake beside send_data
\* BlueZ delivers inbound frames on the thread of the GATT main loop, the
\* application calls send_data on a thread of its own, and
\* BLESecurityManager holds no lock: the statements of the phase-3 branch of
\* process_srp_request are steps between which send_data may run.

\* a frame delivered and handled while no other frame is being handled
ReceiveFrameWhole == srp_call.pc = "idle" /\ ReceiveFrame

\* a phase-3 frame arrives: verify_session, the nonces and the payload of
\* the reply, get_session_key
Srp3Verify ==
  \E m \in Proofs, tx_nonce \in Nonces, rx_nonce \in Nonces :
    LET frame_data == UnlockFrame(<<PHASE_3, m>>)
        client_proof_M1 == fromhex(hex_to_string(Slice(frame_data, 5, 5 + M1_LEN)))
        vs == verify_session(verifier, client_proof_M1)
        server_proof_M2 == vs.ret
        bad == server_proof_M2 = <<>> \/ ~vs.ver.authenticated
        key == IF bad THEN <<>> ELSE get_session_key(vs.ver)
        payload == IF bad THEN <<BAD_PROOF_OF_KEY>>
                   ELSE <<PHASE_4>> \o server_proof_M2 \o <<tx_nonce>> \o <<rx_nonce>>
    IN /\ service_active /\ connected
       /\ srp_call.pc = "idle"
       /\ verifier # None
       /\ verifier' = vs.ver
       /\ srp_call' = [pc |-> IF bad THEN "flag" ELSE "verified",
                       frame |-> frame_data,
                       reply |-> output(FRAME_UNKNOWN, payload),
                       key |-> IF bad THEN 0 ELSE key[1],
                       tx_nonce |-> IF bad THEN 0 ELSE tx_nonce,
                       rx_nonce |-> IF bad THEN 0 ELSE rx_nonce]
       /\ last' = Quiet("srp_verify", frame_data)
       /\ UNCHANGED <<salt, verification_key, encryptor, decryptor, encrypt,
                      service_active, on_data_received, connected, peer,
                      registries, advertisement_registered, relay, singleton,
                      is_connected_call, behaviour, application_thread>>

\* cls.encryptor = cls.new_cipher(key, rx_nonce)
Srp3SetEncryptor ==
  /\ srp_call.pc = "verified"
  /\ encryptor' = new_cipher(srp_call.key, srp_call.rx_nonce)
  /\ srp_call' = [srp_call EXCEPT !.pc = "encryptor"]
  /\ last' = Quiet("srp_encryptor", srp_call.frame)
  /\ UNCHANGED <<salt, verification_key, verifier, decryptor, encrypt,
                 service_active, on_data_received, connected, peer,
                 registries, advertisement_registered, relay, singleton,
                 is_connected_call, behaviour, application_thread>>

\* cls.decryptor = cls.new_cipher(key, tx_nonce)
Srp3SetDecryptor ==
  /\ srp_call.pc = "encryptor"
  /\ decryptor' = new_cipher(srp_call.key, srp_call.tx_nonce)
  /\ srp_call' = [srp_call EXCEPT !.pc = "decryptor"]
  /\ last' = Quiet("srp_decryptor", srp_call.frame)
  /\ UNCHANGED <<salt, verification_key, verifier, encryptor, encrypt,
                 service_active, on_data_received, connected, peer,
                 registries, advertisement_registered, relay, singleton,
                 is_connected_call, behaviour, application_thread>>

\* if key is not None: cls.encrypt = True; the frame of the reply is returned
Srp3SetFlag ==
  /\ srp_call.pc = "decryptor"
  /\ encrypt' = TRUE
  /\ srp_call' = [srp_call EXCEPT !.pc = "flag"]
  /\ last' = Quiet("srp_flag", srp_call.frame)
  /\ UNCHANGED <<salt, verification_key, verifier, encryptor, decryptor,
                 service_active, on_data_received, connected, peer,
                 registries, advertisement_registered, relay, singleton,
                 is_connected_call, behaviour, application_thread>>

\* self.send_data(srp_response): the reply is handed to the GATT server
Srp3Reply ==
  \E r \in {send_data(Cls, <<srp_call.reply>>)} :
    /\ srp_call.pc = "flag"
    /\ SetCls(r.cls)
    /\ srp_call' = NoCall
    /\ peer' = PeerAfterReply(peer, Sent(r.trace), verifier.K)
    /\ last' = Last("receive", srp_call.frame, <<>>, r.raised,
                    <<Call("process_srp_request", srp_call.frame)>> \o r.trace, <<>>)
    /\ UNCHANGED <<service_active, on_data_received, connected,
                   registries, advertisement_registered, relay, singleton,
                   is_connected_call, behaviour, application_thread>>

NextInterleaved ==
  \/ StartService
  \/ Connected
  \/ ReceiveFrameWhole
  \/ SendData
  \/ Srp3Verify
  \/ Srp3SetEncryptor
  \/ Srp3SetDecryptor
  \/ Srp3SetFlag
  \/ Srp3Reply

SpecInterleaved == Init /\ [][NextInterleaved]_vars

\* ------------------------------------------------- is_connected in steps
\* GATTServer.get_connection_status(): CONNECTED when BlueZ holds a device
\* whose Connected property is true, DISCONNECTED otherwise
get_connection_status(link) == IF link THEN "CONNECTED" ELSE "DISCONNECTED"

\* what an is_connected call returns: True as 1, False as 0, or None when
\* neither branch of the if statement is taken
Returned(value) == <<Call("return", value)>>
ReturnedNone == <<Call("return_None", 0)>>

\* BLEServiceNative.is_connected, the test of the if branch with its own
\* call of get_connection_status
IsConnectedFirstRead ==
  /\ is_connected_call = "idle"
  /\ IF get_connection_status(connected) = "CONNECTED"
     THEN /\ last' = Last("is_connected", <<>>, <<>>, "", Returned(1), <<>>)
          /\ UNCHANGED is_connected_call
     ELSE /\ last' = Quiet("is_connected_elif", <<>>)
          /\ is_connected_call' = "elif"
  /\ UNCHANGED <<security, service_active, on_data_received, connected, peer,
                 registries, advertisement_registered, relay, singleton,
                 srp_call, behaviour, application_thread>>

\* the test of the elif branch, with a second call of get_connection_status
IsConnectedSecondRead ==
  /\ is_connected_call = "elif"
  /\ is_connected_call' = "idle"
  /\ last' = Last("is_connected", <<>>, <<>>, "",
                  IF get_connection_status(connected) = "DISCONNECTED"
                  THEN Returned(0) ELSE ReturnedNone,
                  <<>>)
  /\ UNCHANGED <<security, service_active, on_data_received, connected, peer,
                 registries, advertisement_registered, relay, singleton,
                 srp_call, behaviour, application_thread>>

NextIsConnected ==
  \/ StartService
  \/ StopService
  \/ Connected
  \/ Disconnected
  \/ AddConnectCallback
  \/ DelConnectCallback
  \/ IsConnectedFirstRead
  \/ IsConnectedSecondRead

SpecIsConnected == InitObservers /\ [][NextIsConnected]_vars

\* ------------------------------------- observers that act on the registry
\* what an observer function may do when called: nothing more, remove
\* itself or the other observer with del_data_received_callback, register
\* the other observer with add_data_received_callback, or raise
Behaviours == {"returns", "del_self", "del_other", "add_other", "raises"}

OtherCallback(callback) == CHOOSE c \in Callbacks : c # callback

\* the list after the observer callback has run
after_callback(observers, callback, what) ==
  IF what = "del_self" THEN del_data_received_callback(observers, callback)
  ELSE IF what = "del_other"
  THEN del_data_received_callback(observers, OtherCallback(callback))
  ELSE IF what = "add_other"
  THEN add_data_received_callback(observers, OtherCallback(callback))
  ELSE observers

\* "for callback in self._on_data_received: callback(data)" from the i-th
\* element on: the list iterator keeps an index into the list itself, so
\* what an observer does to the list shows in the iterations that follow,
\* and what an observer raises ends the loop; fuel bounds the calls
RECURSIVE dispatch_loop(_, _, _, _, _)
dispatch_loop(observers, i, behave, calls, fuel) ==
  IF i > Len(observers)
  THEN [list |-> observers, calls |-> calls, raised |-> "", done |-> TRUE]
  ELSE IF fuel = 0
  THEN [list |-> observers, calls |-> calls, raised |-> "", done |-> FALSE]
  ELSE LET callback == observers[i]
           called == Append(calls, Call("callback", callback))
       IN IF behave[callback] = "raises"
          THEN [list |-> observers, calls |-> called, raised |-> "Exception",
                done |-> TRUE]
          ELSE dispatch_loop(after_callback(observers, callback, behave[callback]),
                             i + 1, behave, called, fuel - 1)

\* the application gives an observer function its body
SetBehaviour ==
  \E callback \in Callbacks, what \in Behaviours :
    /\ behaviour' = [behaviour EXCEPT ![callback] = what]
    /\ last' = Quiet("set_behaviour", <<callback>>)
    /\ UNCHANGED <<security, service_active, on_data_received, connected, peer,
                   registries, advertisement_registered, relay, singleton,
                   srp_call, is_connected_call, application_thread>>

\* the radio of the XBee variant delivers data: the observers run, each
\* doing what its body says
DataReceivedDispatch ==
  \E r \in {dispatch_loop(on_data_received, 1, behaviour, <<>>, MaxDispatch)} :
    /\ r.done
    /\ Len(r.list) <= MaxDispatch
    /\ on_data_received' = r.list
    /\ last' = Last("dispatch", <<>>, <<>>, r.raised, r.calls, <<>>)
    /\ UNCHANGED <<security, service_active, connected, peer,
                   registries, advertisement_registered, relay, singleton,
                   srp_call, is_connected_call, behaviour, application_thread>>

NextDispatch ==
  \/ AddDataReceivedCallback
  \/ DelDataReceivedCallback
  \/ SetBehaviour
  \/ DataReceivedDispatch

SpecDispatch == InitObservers /\ [][NextDispatch]_vars

\* --------------------------------------------- the sample's command loop
\* The loop reads commands on the main thread; application_thread is a
\* Thread with target sample.start, "new" until start() is called on it,
\* "started" until the scheduler lets it run, "running" while it is inside
\* start_service.

\* Thread.start(): a thread is started once, a second start() raises
thread_start(thread) ==
  IF thread = "new" THEN [raised |-> "", thread |-> "started"]
  ELSE [raised |-> "RuntimeError", thread |-> thread]

\* the command 'start'
CommandStart ==
  /\ ~exited
  /\ IF ~service_active
     THEN LET r == thread_start(application_thread)
          IN /\ application_thread' = r.thread
             /\ exited' = (r.raised # "")
             /\ last' = Last("start_thread", <<>>, <<>>, r.raised, <<>>, <<>>)
     ELSE /\ last' = Quiet("start_already_running", <<>>)
          /\ UNCHANGED <<application_thread, exited>>
  /\ UNCHANGED <<security, service_active, on_data_received, connected, peer,
                 registries, advertisement_registered, relay,
                 BLE_service_instance, created,
                 srp_call, is_connected_call, behaviour>>

\* the scheduler runs the service thread: sample.start calls start_service,
\* which sets the flag and stays in the main loop of the GATT server
ServiceThreadRuns ==
  /\ ~exited
  /\ application_thread = "started"
  /\ application_thread' = "running"
  /\ service_active' = TRUE
  /\ advertisement_registered' = gatt_start(advertisement_registered).registered
  /\ last' = Quiet("start_service", <<>>)
  /\ UNCHANGED <<security, on_data_received, connected, peer, registries, relay,
                 singleton, srp_call, is_connected_call, behaviour>>

\* the command 'stop': sample.stop(), join, and a new Thread object
CommandStop ==
  /\ ~exited
  /\ IF service_active
     THEN LET r == gatt_stop(advertisement_registered)
          IN /\ service_active' = FALSE
             /\ advertisement_registered' = r.registered
             /\ application_thread' = IF r.raised = "" THEN "new"
                                      ELSE application_thread
             /\ exited' = (r.raised # "")
             /\ last' = Last("stop", <<>>, <<>>, r.raised, <<>>, <<>>)
     ELSE /\ last' = Quiet("stop_not_running", <<>>)
          /\ UNCHANGED <<service_active, advertisement_registered,
                         application_thread, exited>>
  /\ UNCHANGED <<security, on_data_received, connected, peer, registries, relay,
                 BLE_service_instance, created,
                 srp_call, is_connected_call, behaviour>>

\* the command 'password'
CommandPassword == ~exited /\ SetPassword

NextSample ==
  \/ CommandStart
  \/ ServiceThreadRuns
  \/ CommandStop
  \/ CommandPassword
  \/ Connected
  \/ Disconnected
  \/ ReceiveFrame

SpecSample == Init /\ [][NextSample]_vars

\* ------------------------------------------------------ the stored instance
\* a call of get_instance through cls; the value returned is recorded as
\* the last call made, under the identity of the instance (0 for None)
CallGetInstance(cls) ==
  \E available \in BOOLEAN, outcome \in RadioEnvs :
  \E r \in {get_instance(cls, BLE_service_instance, created, available, outcome)} :
    /\ ~exited
    /\ r.created <= MaxInstances
    /\ BLE_service_instance' = r.attr
    /\ created' = r.created
    /\ exited' = r.exited
    /\ last' = Last("get_instance", <<cls>>, <<>>, r.raised,
                    IF r.raised = ""
                    THEN r.trace \o <<Probe("return", IF r.ret = None THEN 0 ELSE r.ret.id)>>
                    ELSE r.trace,
                    <<>>)
    /\ UNCHANGED <<security, service_active, on_data_received, connected, peer,
                   registries, advertisement_registered, relay, concurrent>>

\* BLEService.get_instance()
GetInstance == CallGetInstance("BLEService")

\* BLEServiceNative.get_instance() or BLEServiceXBee.get_instance()
GetInstanceOfSubclass ==
  \E cls \in Classes \ {"BLEService"} : CallGetInstance(cls)

NextInstance ==
  \/ GetInstance
  \/ GetInstanceOfSubclass

SpecInstance == Init /\ [][NextInstance]_vars

\* ------------------------------------------------- reading the last operation
Received == last.op \in {"receive", "receive_encrypted"}

Made(trace, fn) == \E i \in 1..Len(trace) : trace[i].fn = fn

\* the frame written was routed to process_srp_request
IsHandshake(data) == Len(data) > 3 /\ data[4] = FRAME_UNLOCK

\* the proof a phase-3 frame carries
ProofOf(data) == Slice(data, 5, 5 + M1_LEN)

Phase2Reply(s, B) == output(FRAME_UNKNOWN, <<PHASE_2, s, B>>)

\* the payload of an API frame: what lies between frame type and checksum
PayloadOf(frame) == SubSeq(frame, 5, Len(frame) - 1)

\* what decrypt_data returned in the last operation
DecryptedOf(trace) ==
  IF Len(trace) >= 2 /\ trace[2].fn = "decrypted_data" THEN trace[2].arg ELSE <<>>

\* the observer calls of an operation, in order: <<observer, argument>>
RECURSIVE CallbackCalls(_)
CallbackCalls(trace) ==
  IF trace = <<>> THEN <<>>
  ELSE IF trace[1].fn = "callback" THEN <<trace[1].arg>> \o CallbackCalls(Tail(trace))
  ELSE CallbackCalls(Tail(trace))

\* the connection observer calls of an operation, in order
RECURSIVE ObserverCalls(_)
ObserverCalls(trace) ==
  IF trace = <<>> THEN <<>>
  ELSE IF trace[1].fn \in {"on_connect", "on_disconnect"}
       THEN <<trace[1]>> \o ObserverCalls(Tail(trace))
  ELSE ObserverCalls(Tail(trace))

\* how often x occurs in a list
RECURSIVE Count(_, _)
Count(list, x) ==
  IF list = <<>> THEN 0
  ELSE (IF list[1] = x THEN 1 ELSE 0) + Count(Tail(list), x)

\* a decrypted frame that UserDataRelayPacket.create_packet accepts
IsRelayRequest(frame) ==
  check_api_packet(frame, 7) /\ frame[4] = FRAME_RELAY_REQUEST

\* ---------------------------------------------------------------- claims

\* C1: the encrypt flag goes from false to true only in a step in which
\* process_srp_request handles a phase-3 frame whose proof M1 equals the M of
\* the verifier that an earlier phase-1 frame created; no other operation
\* sets it.
C1_AuthOnlyByVerifiedPhase3 ==
  [][ (~encrypt /\ encrypt') =>
        /\ last'.op \in {"receive", "receive_encrypted"}
        /\ IsRequest(last'.arg, PHASE_3)
        /\ Made(last'.trace, "process_srp_request")
        /\ verifier # None
        /\ ~verifier.safety_failed
        /\ ProofOf(last'.arg) = <<verifier.M>> ]_vars

C1_Witness ==
  /\ encrypt
  /\ last.op = "receive"
  /\ IsRequest(last.arg, PHASE_3)
  /\ encryptor.pos = 0 /\ decryptor.pos = 0
  /\ Len(Sent(last.trace)) = 1 /\ IsPhase4Reply(Sent(last.trace)[1])

C4_PayloadNeverSentInClear ==
  last.op = "send_data" =>
    \A i \in 1..Len(last.trace) :
      last.trace[i].fn = "send_rx_data" =>
        /\ last.trace[i].arg # last.arg
        /\ \E j \in 1..(i - 1) :
             /\ last.trace[j].fn = "encrypt_data"
             /\ last.trace[j].arg = relay_output(last.arg)

\* C5: a phase-1 frame with a valid A is answered with a phase-2 reply and
\* leaves a verifier expecting a proof; a phase-3 frame carrying the proof
\* that verifier expects is answered with a phase-4 reply and ends with the
\* encrypt flag true, for every password set with set_password.
C5_HandshakeInOrderAuthenticates ==
  [][ /\ (last'.op = "receive" /\ IsRequest(last'.arg, PHASE_1)
            /\ Len(last'.arg) > 5 /\ last'.arg[6] % SRP_N # 0) =>
           /\ last'.raised = ""
           /\ verifier' # None /\ ~verifier'.safety_failed
           /\ Sent(last'.trace) = <<Phase2Reply(salt, verifier'.B)>>
      /\ (last'.op = "receive" /\ IsRequest(last'.arg, PHASE_3)
            /\ verifier # None /\ ~verifier.safety_failed
            /\ ProofOf(last'.arg) = <<verifier.M>>) =>
           /\ last'.raised = ""
           /\ encrypt'
           /\ Len(Sent(last'.trace)) = 1
           /\ IsPhase4Reply(Sent(last'.trace)[1]) ]_vars

\* the handshake completed under a password that set_password installed
C5_Witness ==
  /\ encrypt
  /\ last.op = "receive"
  /\ IsRequest(last.arg, PHASE_3)
  /\ verifier.v = verification_key_of(2, verifier.s)
  /\ ProofOf(last.arg) = <<verifier.M>>
  /\ Len(Sent(last.trace)) = 1 /\ IsPhase4Reply(Sent(last.trace)[1])

\* C6: the peer's ciphers, keyed with the session key and the nonces of the
\* phase-4 reply, mirror the server's; while both sides have processed the
\* same frames, what the server's encryptor produces decrypts at the peer to
\* the original frame, and what the peer encrypts decrypts at the server's
\* decryptor to the original frame, frame after frame.
C6_SessionCipherRoundTrip ==
  [][ /\ (encrypt' /\ Received' /\ IsRequest(last'.arg, PHASE_3)
            /\ Sent(last'.trace) # <<>> /\ IsPhase4Reply(Sent(last'.trace)[1])) =>
           /\ peer'.dec = encryptor'
           /\ peer'.enc = decryptor'
           /\ encryptor'.key = verifier'.K
           /\ peer'.dec.nonce = Sent(last'.trace)[1][5 + M2_LEN + NONCE_LEN + 1]
           /\ peer'.enc.nonce = Sent(last'.trace)[1][5 + M2_LEN + 1]
      /\ (encrypt /\ last'.op = "send_data" /\ Made(last'.trace, "encrypt_data")
            /\ peer.dec = encryptor) =>
           /\ last'.peer_recv = relay_output(last'.arg)
           /\ peer'.dec = encryptor'
           /\ encryptor'.pos = encryptor.pos + Len(relay_output(last'.arg))
      /\ (encrypt /\ last'.op = "receive_encrypted" /\ Made(last'.trace, "decrypt_data")
            /\ peer.enc = decryptor) =>
           /\ \E i \in 1..Len(last'.trace) :
                /\ last'.trace[i].fn = "decrypted_data"
                /\ last'.trace[i].arg = last'.plain
           /\ peer'.enc = decryptor'
           /\ decryptor'.pos = decryptor.pos + Len(last'.plain) ]_vars

\* the second frame of a session decrypted to the original after the first
C6_Witness ==
  /\ encrypt
  /\ last.op = "receive_encrypted"
  /\ last.plain = RelayRequest(<<66>>)
  /\ decryptor.pos = 2 * Len(last.plain)
  /\ peer.enc = decryptor
  /\ Made(last.trace, "callback")

\* C7: a phase-3 frame processed while no phase-1 frame has created a
\* verifier leaves the encrypt flag false and creates neither encryptor nor
\* decryptor.
C7_Phase3BeforePhase1 ==
  [][ (verifier = None /\ Received' /\ IsRequest(last'.arg, PHASE_3)) =>
        /\ ~encrypt /\ ~encrypt'
        /\ encryptor' = None
        /\ decryptor' = None
        /\ Sent(last'.trace) = <<>> ]_vars

C7_Witness ==
  /\ verifier = None
  /\ last.op = "receive"
  /\ IsRequest(last.arg, PHASE_3)
  /\ last.raised = "AttributeError"
  /\ ~encrypt /\ encryptor = None /\ decryptor = None

\* C8 (as claimed): after a phase-3 frame whose proof failed verification the
\* Session is not authenticated, whatever it was before.
C8_BadProofLeavesUnauthenticated ==
  (Received /\ IsRequest(last.arg, PHASE_3) /\ Len(Sent(last.trace)) = 1
     /\ IsBadProofReply(Sent(last.trace)[1]))
    => ~encrypt

\* C9 (as claimed): once a proof of the peer has been rejected on this
\* connection, no later frame of the same connection sets the encrypt flag.
C9_NoRetryAfterBadProof ==
  [][ (peer.rejected /\ ~encrypt /\ Received') => ~encrypt' ]_vars

\* C10 (as claimed): a connection starts with a fresh Session: the encrypt
\* flag is false, and no encryptor, no decryptor and no verifier that can
\* still accept a proof is left of an earlier connection.
C10_ConnectionStartsFresh ==
  last.op = "connected" =>
    /\ ~encrypt
    /\ encryptor = None
    /\ decryptor = None
    /\ (verifier = None \/ verifier.safety_failed)

\* C11 (as claimed): once the Session of a connection is authenticated, no
\* inbound frame of that connection changes the key or the nonce of its
\* encryptor or of its decryptor.
C11_CiphersImmutableOnceAuthenticated ==
  [][ (encrypt /\ peer.enc # None /\ Received') =>
        /\ encryptor'.key = encryptor.key
        /\ encryptor'.nonce = encryptor.nonce
        /\ decryptor'.key = decryptor.key
        /\ decryptor'.nonce = decryptor.nonce ]_vars

\* C12 (as claimed): the reply to a phase-1 frame whose A makes B underivable
\* is one 0xAC frame whose payload is the error code 0x80, without salt or B.
C12_DegenerateAReply ==
  (Received /\ IsRequest(last.arg, PHASE_1) /\ verifier # None
     /\ verifier.safety_failed)
    => /\ Len(Sent(last.trace)) = 1
       /\ Sent(last.trace)[1][4] = FRAME_UNKNOWN
       /\ PayloadOf(Sent(last.trace)[1]) = <<B_OFFERING_ERROR>>

\* C13: the reply to a phase-1 frame with a valid A is one 0xAC frame whose
\* payload is 0x02, the stored salt, and a non-empty B; send_data transmits
\* it without calling encrypt_data and without using the encryptor, whether
\* or not the Session is authenticated.
C13_Phase2ReplyInClear ==
  [][ (Received' /\ IsRequest(last'.arg, PHASE_1)
         /\ Len(last'.arg) > 5 /\ last'.arg[6] % SRP_N # 0) =>
        /\ last'.raised = ""
        /\ get_challenge(verifier') # <<>>
        /\ Len(Sent(last'.trace)) = 1
        /\ Sent(last'.trace)[1][4] = FRAME_UNKNOWN
        /\ PayloadOf(Sent(last'.trace)[1])
             = <<PHASE_2>> \o <<salt>> \o get_challenge(verifier')
        /\ ~Made(last'.trace, "encrypt_data")
        /\ encryptor' = encryptor ]_vars

\* a phase-2 reply sent in the clear by an authenticated Session in use
C13_Witness ==
  /\ encrypt /\ encryptor.pos > 0
  /\ Received /\ IsRequest(last.arg, PHASE_1)
  /\ ~verifier.safety_failed
  /\ Sent(last.trace) = <<Phase2Reply(salt, verifier.B)>>

\* C14: the reply to a phase-3 frame whose proof verifies has the payload
\* 0x04, M2, tx_nonce, rx_nonce, in that order, and after the step the
\* encryptor is keyed with the session key and rx_nonce, the decryptor with
\* the session key and tx_nonce.
C14_Phase4ReplyAndCiphers ==
  [][ (Received' /\ IsRequest(last'.arg, PHASE_3)
         /\ verifier # None /\ ~verifier.safety_failed
         /\ ProofOf(last'.arg) = <<verifier.M>>) =>
        \E tx_nonce \in Nonces, rx_nonce \in Nonces :
          /\ Len(Sent(last'.trace)) = 1
          /\ Sent(last'.trace)[1][4] = FRAME_UNKNOWN
          /\ PayloadOf(Sent(last'.trace)[1])
               = <<PHASE_4, verifier.H_AMK, tx_nonce, rx_nonce>>
          /\ encryptor' = new_cipher(verifier.K, rx_nonce)
          /\ decryptor' = new_cipher(verifier.K, tx_nonce) ]_vars

\* a phase-4 reply whose two nonces differ, so that their order shows
C14_Witness ==
  /\ Received /\ IsRequest(last.arg, PHASE_3)
  /\ Len(Sent(last.trace)) = 1 /\ IsPhase4Reply(Sent(last.trace)[1])
  /\ PayloadOf(Sent(last.trace)[1])[3] # PayloadOf(Sent(last.trace)[1])[4]
  /\ decryptor = new_cipher(verifier.K, PayloadOf(Sent(last.trace)[1])[3])
  /\ encryptor = new_cipher(verifier.K, PayloadOf(Sent(last.trace)[1])[4])

\* C15 (as claimed): the two nonces of a phase-4 reply differ, so encryptor
\* and decryptor never hold the same (key, nonce) pair.
C15_NoncesDistinct ==
  (Received /\ IsRequest(last.arg, PHASE_3) /\ Len(Sent(last.trace)) = 1
     /\ IsPhase4Reply(Sent(last.trace)[1]))
    => /\ PayloadOf(Sent(last.trace)[1])[3] # PayloadOf(Sent(last.trace)[1])[4]
       /\ <<encryptor.key, encryptor.nonce>> # <<decryptor.key, decryptor.nonce>>

\* C16: the reply to a phase-3 frame whose proof the verifier rejects is one
\* 0xAC frame whose payload is the error code 0x82 alone (no M2, no nonce),
\* and the step leaves encryptor and decryptor as they were.
C16_BadProofReply ==
  [][ (Received' /\ IsRequest(last'.arg, PHASE_3) /\ verifier # None
         /\ (verifier.safety_failed \/ ProofOf(last'.arg) # <<verifier.M>>)) =>
        /\ last'.raised = ""
        /\ Len(Sent(last'.trace)) = 1
        /\ Sent(last'.trace)[1][4] = FRAME_UNKNOWN
        /\ PayloadOf(Sent(last'.trace)[1]) = <<BAD_PROOF_OF_KEY>>
        /\ encryptor' = encryptor
        /\ decryptor' = decryptor ]_vars

\* a proof rejected while the ciphers of a session are in place
C16_Witness ==
  /\ Received /\ IsRequest(last.arg, PHASE_3)
  /\ verifier # None
  /\ ProofOf(last.arg) # <<verifier.M>>
  /\ Len(Sent(last.trace)) = 1
  /\ PayloadOf(Sent(last.trace)[1]) = <<BAD_PROOF_OF_KEY>>
  /\ encryptor # None /\ decryptor # None

\* C17 (as claimed): a handshake request with a phase code out of sequence
\* (neither 0x01 nor 0x03, or 0x03 with no verifier of a phase 1) is answered
\* with the error code 0x84, one too short to hold a phase code with 0x81,
\* and no exception leaves the receive path.
C17_ProtocolErrorAnswered ==
  (Received /\ IsHandshake(last.arg)) =>
    /\ (Len(last.arg) > 4
          /\ (last.arg[5] \notin {PHASE_1, PHASE_3}
                \/ (last.arg[5] = PHASE_3 /\ verifier = None))) =>
         /\ last.raised = ""
         /\ Sent(last.trace) = <<output(FRAME_UNKNOWN, <<WRONG_STEP_ERROR>>)>>
    /\ (Len(last.arg) <= 4) =>
         /\ last.raised = ""
         /\ Sent(last.trace) = <<output(FRAME_UNKNOWN, <<INCORRECT_LENGTH>>)>>

\* C18 (as claimed): a frame with 0x2C at offset 3 is handed to
\* process_srp_request and one reply is sent; decrypt_data is not called,
\* the decryptor is unchanged and no observer is invoked.
C18_HandshakeFrameRouted ==
  [][ (Received' /\ IsHandshake(last'.arg)) =>
        /\ Made(last'.trace, "process_srp_request")
        /\ Len(Sent(last'.trace)) = 1
        /\ ~Made(last'.trace, "decrypt_data")
        /\ ~Made(last'.trace, "callback")
        /\ decryptor' = decryptor ]_vars

\* C19: a frame that is not a handshake request and that decrypt_data turns
\* into a frame with 0x08 at offset 3 is dropped: no observer is invoked,
\* nothing is sent and nothing is raised.
C19_ATCommandDropped ==
  [][ (Received' /\ ~IsHandshake(last'.arg)
         /\ Made(last'.trace, "decrypted_data")
         /\ Len(DecryptedOf(last'.trace)) > 3
         /\ DecryptedOf(last'.trace)[4] = FRAME_AT_COMMAND) =>
        /\ last'.raised = ""
        /\ CallbackCalls(last'.trace) = <<>>
        /\ Sent(last'.trace) = <<>> ]_vars

\* an AT command frame the peer encrypted, dropped with observers registered
C19_Witness ==
  /\ last.op = "receive_encrypted"
  /\ last.plain = output(FRAME_AT_COMMAND, <<1, 78, 73>>)
  /\ DecryptedOf(last.trace) = last.plain
  /\ on_data_received # <<>>
  /\ last.raised = ""

C22_XBeeIsConnected ==
  /\ ~xbee_is_connected(xbee_connected)
  /\ [][ /\ (last'.op = "BLUETOOTH_CONNECTED") =>
              /\ xbee_is_connected(xbee_connected')
              /\ last'.trace # <<>>
              /\ last'.trace[1] = [fn |-> "_connected", arg |-> 1]
              /\ \A i \in 2..Len(last'.trace) : last'.trace[i].fn = "on_connect"
         /\ (last'.op = "BLUETOOTH_DISCONNECTED") =>
              /\ ~xbee_is_connected(xbee_connected')
              /\ last'.trace # <<>>
              /\ last'.trace[1] = [fn |-> "_connected", arg |-> 0]
              /\ \A i \in 2..Len(last'.trace) : last'.trace[i].fn = "on_disconnect"
         /\ (last'.op \notin {"BLUETOOTH_CONNECTED", "BLUETOOTH_DISCONNECTED"}) =>
              xbee_is_connected(xbee_connected') = xbee_is_connected(xbee_connected)
       ]_vars

\* connected, then another status that leaves is_connected() true
C22_Witness ==
  /\ xbee_is_connected(xbee_connected)
  /\ last.op = "HARDWARE_RESET"
  /\ on_connect # <<>>


\* ------------------------------------------------ claims on get_instance
\* the baud rates tried by the call recorded in trace, in the order tried
RatesTried(trace) == SelectSeq(trace, LAMBDA c : c.fn \in TryOutcomes)

\* the call recorded in trace asked the local radio and got this answer
AskedLocal(trace, answer) ==
  trace # <<>> /\ trace[1] = Probe("is_bluetooth_available", answer)

\* C23: once a call of get_instance has succeeded (an instance has been
\* constructed and stored), every later call returns that first instance
\* and makes no probe of the local radio or of the serial port
C23_SameInstance ==
  [][ (last'.op = "get_instance" /\ created > 0)
        => /\ last'.raised = ""
           /\ last'.trace = <<Probe("return", 1)>>
           /\ created' = created ]_vars

\* C24: on first use, a local radio that answers gives the native variant
\* and no baud rate is tried; otherwise the rates are tried in the listed
\* order, a rate that fails is followed by the next one, and the first rate
\* that works is adopted and ends the search
C24_FirstUse ==
  [][ (last'.op = "get_instance" /\ created = 0)
        => LET t == last'.trace
               rates == RatesTried(t)
               stored == read_instance(BLE_service_instance', last'.arg[1])
           IN /\ AskedLocal(t, 1) \/ AskedLocal(t, 0)
              /\ AskedLocal(t, 1)
                   => /\ rates = <<>>
                      /\ stored # None /\ stored.variant = "native"
                      /\ last'.raised = ""
              /\ AskedLocal(t, 0)
                   => /\ \A k \in 1..Len(rates) :
                           /\ rates[k].arg = XBEE_PORT_BAUDRATES[k]
                           /\ rates[k].fn = "ok"
                                => /\ k = Len(rates)
                                   /\ stored # None
                                   /\ stored.variant = "xbee"
                                   /\ stored.baud = rates[k].arg
                                   /\ last'.raised = ""
                           /\ rates[k].fn # "ok"
                                => \/ k < Len(rates)
                                   \/ k = Len(XBEE_PORT_BAUDRATES)
                      /\ ~exited' ]_vars

StopOps == {"stop_service", "xbee_stop_service"}

\* a wait thread is blocked: it runs and the event it waits on is not set
WaitThreadBlocked == wait_threads > 0 /\ ~stop_service_event

\* C26: two calls of stop_service in sequence, in any state, both return
\* without raising, leave service_active false and leave no wait thread
\* blocked
C26_StopTwice ==
  [][ (last.op \in StopOps /\ last'.op = last.op)
        => /\ last.raised = "" /\ last'.raised = ""
           /\ last'.op = "stop_service" => ~service_active'
           /\ last'.op = "xbee_stop_service"
                => ~xbee_service_active' /\ ~WaitThreadBlocked' ]_vars

\* C27: on the XBee variant, once stop_service has been called, whatever
\* disable_bluetooth() did, every wait thread started before eventually ends
C27_WaitThreadsEnd ==
  [](last.op = "xbee_stop_service" => <>(wait_threads = 0))


\* ------------------------------------------------- claims on set_password
\* C28: the salt and the verification key change only in states where
\* service_active is false
C28_PasswordWhenStopped ==
  [][ (salt' # salt \/ verification_key' # verification_key)
        => ~service_active ]_vars


\* ------------------------------------------- claims on frames and ciphers
\* the decrypted frame has 0x08 at offset 3
IsATCommand(frame) == Len(frame) > 3 /\ frame[4] = FRAME_AT_COMMAND

\* C29 (as claimed): a frame that is not a handshake request and that,
\* while authenticated, decrypts to something that is no User Data Relay
\* frame raises InvalidPacketException to the caller and reaches no observer
C29_MalformedRaises ==
  [][ (encrypt /\ Received' /\ ~IsHandshake(last'.arg)
         /\ Made(last'.trace, "decrypted_data")
         /\ ~IsRelayRequest(DecryptedOf(last'.trace))) =>
        /\ last'.raised = "InvalidPacketException"
        /\ CallbackCalls(last'.trace) = <<>> ]_vars

\* C29 (amended): as above for the decrypted frames that do not have 0x08 at
\* offset 3, the only ones handed to UserDataRelayPacket.create_packet
C29_MalformedRaisesUnlessAT ==
  [][ (encrypt /\ Received' /\ ~IsHandshake(last'.arg)
         /\ Made(last'.trace, "decrypted_data")
         /\ ~IsATCommand(DecryptedOf(last'.trace))
         /\ ~IsRelayRequest(DecryptedOf(last'.trace))) =>
        /\ last'.raised = "InvalidPacketException"
        /\ CallbackCalls(last'.trace) = <<>>
        /\ Sent(last'.trace) = <<>> ]_vars

\* eight bytes that are no API frame, encrypted by the peer, raised to the
\* caller with observers registered
C29_Witness ==
  /\ encrypt
  /\ last.op = "receive_encrypted"
  /\ last.plain = <<1, 2, 3, 4, 5, 6, 7, 8>>
  /\ DecryptedOf(last.trace) = last.plain
  /\ on_data_received # <<>>
  /\ last.raised = "InvalidPacketException"

\* the key of a cipher, nothing for None
KeyOf(cipher) == IF cipher = None THEN <<>> ELSE <<cipher.key>>

C31_DegenerateALeavesSession ==
  [][ (Received' /\ IsRequest(last'.arg, PHASE_1)
         /\ Len(last'.arg) > 5 /\ last'.arg[6] % SRP_N = 0) =>
        /\ encrypt' = encrypt
        /\ encryptor' = encryptor
        /\ decryptor' = decryptor
        /\ verifier' = verifier ]_vars


\* C32: an inbound frame with 0xAC at offset 3 never reaches decrypt_data
\* and never reaches a data-received observer, whatever the Session state
C32_UnknownFrameBypasses ==
  [][ (Received' /\ Len(last'.arg) > 3 /\ last'.arg[4] = FRAME_UNKNOWN) =>
        /\ ~Made(last'.trace, "decrypt_data")
        /\ CallbackCalls(last'.trace) = <<>> ]_vars


\* C33: on the XBee variant the wait thread of a cycle stays blocked until
\* the stop_service of that cycle: after a start_service that returned with
\* no other wait thread alive, the thread it started does not end before a
\* stop_service is called
C33_WaitThreadOfCycle ==
  [][ (last.op = "xbee_start_service" /\ last.raised = "" /\ wait_threads = 1)
        => wait_threads' >= 1 ]_vars


\* --------------------------------------------------- claims on threads
\* the steps of a process_srp_request call that has assigned the encryptor
\* and has not yet handed its reply to the GATT server
KeyedSteps == {"encryptor", "decryptor", "flag"}

\* the last operation is a send_data that handed an encrypted frame to the
\* GATT server
SentEncrypted(l) ==
  l.op = "send_data" /\ Made(l.trace, "encrypt_data") /\ Made(l.trace, "send_rx_data")

\* C34: an encrypt_data call never works on a Session whose encryptor a
\* handshake has replaced while the decryptor is still the one of before
C34_SessionSerialised ==
  [][ SentEncrypted(last')
        => /\ decryptor # None
           /\ encryptor.key = decryptor.key ]_vars

\* C35: no frame encrypted with the encryptor of a handshake is handed to
\* the GATT server before the phase-4 reply of that handshake; stated for
\* the handshakes whose cipher the peer does not hold already
C35_ReplyBeforeData ==
  [][ (/\ SentEncrypted(last')
       /\ srp_call.pc \in KeyedSteps
       /\ \/ peer.dec = None
          \/ peer.dec.key # srp_call.key
          \/ peer.dec.nonce # srp_call.rx_nonce)
        => ~(/\ encryptor.key = srp_call.key
             /\ encryptor.nonce = srp_call.rx_nonce) ]_vars


\* C36: on the native variant is_connected() returns True or False, never
\* None, whatever happens to the link while it runs
C36_IsConnectedBoolean ==
  last.op = "is_connected" => last.trace \in {Returned(1), Returned(0)}


\* how often the observer callback was called in a dispatch
CallsOf(trace, callback) ==
  Cardinality({i \in 1..Len(trace) : trace[i] = Call("callback", callback)})

\* C37: in the dispatch of one event an observer that was registered (once)
\* when the dispatch began and is still registered when it ends is called
\* exactly once, whatever the observers do to the registry and whether or
\* not one of them raises
C37_EachObserverOnce ==
  [][ last'.op = "dispatch" =>
        \A callback \in Callbacks :
          (Count(on_data_received, callback) = 1
             /\ Count(on_data_received', callback) >= 1)
            => CallsOf(last'.trace, callback) = 1 ]_vars


\* C38: a 'start' command given while the Thread object has been started
\* and no 'stop' came since is answered 'Service already running' and does
\* not call start() on the thread again
C38_StartOncePerCycle ==
  [][ (application_thread # "new"
         /\ last'.op \in {"start_thread", "start_already_running"}
         /\ last' # last)
        => last'.op = "start_already_running" ]_vars

====
